---- MODULE Spec2Model ----
(***************************************************************************)
(* Model of Core::System (src/core/core.cpp): the run loop, the session    *)
(* lifecycle (Init / Load / Shutdown / Jump) and the reschedule and        *)
(* jump / shutdown request flags, together with the event timer queue and  *)
(* the kernel thread scheduler the run loop drives.                        *)
(*                                                                         *)
(* The functions of System are operators from a state record to a state    *)
(* record (Load calls Init and Shutdown, Jump calls Shutdown and Load), so *)
(* that an action is the whole call.  RunLoop is split at its statements   *)
(* because the request flags are written by another host thread while an   *)
(* iteration is in progress.                                               *)
(***************************************************************************)
EXTENDS Integers, Sequences, FiniteSets, TLC

\* ---------------------------------------------------------------- bounds
NumThreads == 2
MaxCycles == 2
MaxDelay == 1
MaxTimerCalls == 5
HourCycles == 2
MaxTitles == 2
MaxMessages == 2
MaxFlip == 1
MaxGameDirs == 4

Threads == 1..NumThreads
NoThread == 0
Delays == 1..MaxDelay

\* ------------------------------------------------------------- constants
Paths == {"a.3dsx"}
NoPath == "none"

LoaderResults == {"Success", "ErrorEncrypted", "ErrorInvalidFormat", "Error"}
VideoResults == {"Success", "ErrorVideoCore", "ErrorVideoCore_ErrorGenericDrivers"}

Modules == {"CoreTiming", "HW", "Kernel", "Service", "CheatCore", "VideoCore"}

\* What the collaborators of one Load answer: found, whether Loader::GetLoader
\* returns a loader; mode_result, video_result and load_result, the results of
\* LoadKernelSystemMode, VideoCore::Init and AppLoader::Load.  An answer that
\* Load never asks for is fixed to Success.
LoadInputs ==
    {i \in [found : BOOLEAN, mode_result : LoaderResults,
            video_result : VideoResults, load_result : LoaderResults] :
        /\ ~i.found => i.mode_result = "Success" /\ i.video_result = "Success"
        /\ i.mode_result # "Success" => i.video_result = "Success"
        /\ (~i.found \/ i.mode_result # "Success" \/ i.video_result # "Success")
              => i.load_result = "Success"}

\* the targets a jump is requested to: title id 0 is the running title itself
JumpTargets == {<<0, "NAND">>, <<1, "NAND">>, <<1, "SDMC">>}

VARIABLES
    cpu_core,            \* System::cpu_core is non-null
    dsp_core,            \* System::dsp_core is non-null
    rpc_server,          \* System::rpc_server is non-null
    service_manager,     \* System::service_manager is non-null
    shared_page_handler, \* System::shared_page_handler is non-null
    qt_callbacks,        \* System::qt_callbacks is non-null
    app_loader,          \* System::app_loader is non-null
    inited,              \* the namespace-level subsystems that are initialized
    reschedule_pending,
    jump_requested,
    shutdown_requested,
    jump_tid,
    jump_media,
    m_filepath,
    page_table,          \* the process whose page table is the active one
    thread_state,        \* kernel: state of every guest thread
    current_thread,      \* kernel: GetCurrentThread(), NoThread for null
    cycles,              \* timer: the virtual cycle counter
    event_queue,         \* timer: pending events, sorted by time
    date_time_counter,   \* shared page: date_time_counter
    date_time_0,         \* shared page: date_time_0.update_tick
    date_time_1,         \* shared page: date_time_1.update_tick
    fired,               \* the events the latest Advance fired, in order
    calls,               \* the calls made by the host operation in progress
    result,              \* the status returned by the last System function
    host_pc,             \* where the stepping thread is
    rl_idle,             \* the current RunLoop call took the idle branch
    rl_seen_jump,        \* jump_requested when the RunLoop call exchanged it
    rl_seen_shutdown,    \* shutdown_requested at that moment
    session_data,        \* CECD: the SessionData of the one client session
    read_buffer,         \* CECD: the buffer of the latest Write as the guest sent it
    file_buffer,         \* CECD: the buffer the latest Write handed to the file
    last_open,           \* CECD: what the latest Open on the session opened
    values,              \* Settings::values and UISettings::values
    qt_config            \* Config::qt_config, the stored keys and their values

progvars == <<cpu_core, dsp_core, rpc_server, service_manager, shared_page_handler,
              qt_callbacks, app_loader, inited, reschedule_pending, jump_requested,
              shutdown_requested, jump_tid, jump_media, m_filepath, page_table, thread_state,
              current_thread, cycles, event_queue, date_time_counter, date_time_0,
              date_time_1, session_data, read_buffer, file_buffer, last_open, values,
              qt_config>>

vars == <<cpu_core, dsp_core, rpc_server, service_manager, shared_page_handler,
          qt_callbacks, app_loader, inited, reschedule_pending, jump_requested,
          shutdown_requested, jump_tid, jump_media, m_filepath, page_table, thread_state,
          current_thread, cycles, event_queue, date_time_counter, date_time_0,
          date_time_1, fired, calls, result, host_pc, rl_idle,
          rl_seen_jump, rl_seen_shutdown, session_data, read_buffer, file_buffer, last_open,
          values, qt_config>>

\* the state of the services that are modelled on their own
svcvars == <<session_data, read_buffer, file_buffer, last_open, values, qt_config>>

\* The program state as one record, the argument of the System functions.
State ==
    [cpu_core |-> cpu_core, dsp_core |-> dsp_core, rpc_server |-> rpc_server,
     service_manager |-> service_manager, shared_page_handler |-> shared_page_handler,
     qt_callbacks |-> qt_callbacks, app_loader |-> app_loader, inited |-> inited,
     reschedule_pending |-> reschedule_pending, jump_requested |-> jump_requested,
     shutdown_requested |-> shutdown_requested, jump_tid |-> jump_tid, jump_media |-> jump_media,
     m_filepath |-> m_filepath, page_table |-> page_table,
     thread_state |-> thread_state, current_thread |-> current_thread,
     cycles |-> cycles, event_queue |-> event_queue,
     date_time_counter |-> date_time_counter, date_time_0 |-> date_time_0,
     date_time_1 |-> date_time_1, fired |-> fired, calls |-> calls,
     result |-> result]

\* The next state of the program is the record r.
Commit(r) ==
    /\ cpu_core' = r.cpu_core
    /\ dsp_core' = r.dsp_core
    /\ rpc_server' = r.rpc_server
    /\ service_manager' = r.service_manager
    /\ shared_page_handler' = r.shared_page_handler
    /\ qt_callbacks' = r.qt_callbacks
    /\ app_loader' = r.app_loader
    /\ inited' = r.inited
    /\ reschedule_pending' = r.reschedule_pending
    /\ jump_requested' = r.jump_requested
    /\ shutdown_requested' = r.shutdown_requested
    /\ jump_tid' = r.jump_tid
    /\ jump_media' = r.jump_media
    /\ m_filepath' = r.m_filepath
    /\ page_table' = r.page_table
    /\ thread_state' = r.thread_state
    /\ current_thread' = r.current_thread
    /\ cycles' = r.cycles
    /\ event_queue' = r.event_queue
    /\ date_time_counter' = r.date_time_counter
    /\ date_time_0' = r.date_time_0
    /\ date_time_1' = r.date_time_1
    /\ fired' = r.fired
    /\ calls' = r.calls
    /\ result' = r.result
    /\ UNCHANGED svcvars

Call(s, name) == [s EXCEPT !.calls = Append(@, name)]

\* ------------------------------------------------------------ sequences
Count(seq, x) == Cardinality({i \in 1..Len(seq) : seq[i] = x})

Has(seq, x) == \E i \in 1..Len(seq) : seq[i] = x

\* the position of the first x in seq, 0 when there is none
First(seq, x) ==
    IF Has(seq, x) THEN CHOOSE i \in 1..Len(seq) :
                            seq[i] = x /\ \A j \in 1..(i - 1) : seq[j] # x
    ELSE 0

\* --------------------------------------------------- System: reschedule
\* the use of a member through its pointer: an absent member is a null
\* dereference
Deref(s, present) == IF present THEN s ELSE Call(s, "null dereference")

\* System::PrepareReschedule
PrepareReschedule(s) ==
    [Call(Deref(s, s.cpu_core), "PrepareReschedule") EXCEPT !.reschedule_pending = TRUE]

\* ------------------------------------------------- the event timer queue
\* insertion in front of the events that are due at the same time
InsertPos_BeforeEqual(q, t) == Cardinality({i \in 1..Len(q) : q[i].time < t}) + 1

\* the position at which an event due at time t is inserted: behind every
\* event that is due no later (simultaneous events keep insertion order)
InsertPos(q, t) == Cardinality({i \in 1..Len(q) : q[i].time <= t}) + 1

InsertEvent(q, e) ==
    LET p == InsertPos(q, e.time)
    IN  SubSeq(q, 1, p - 1) \o <<e>> \o SubSeq(q, p, Len(q))

\* CoreTiming::ScheduleEvent
ScheduleEvent(s, cycles_into_future, event_type, userdata) ==
    [s EXCEPT !.event_queue =
        InsertEvent(@, [time |-> s.cycles + cycles_into_future,
                        type |-> event_type, userdata |-> userdata])]

\* Idle that jumps to the latest pending event instead of the earliest
Idle_ToLatest(s) ==
    LET s1 == Call(s, "Idle")
        q == s1.event_queue
    IN  IF q # <<>> /\ q[Len(q)].time > s1.cycles
        THEN [s1 EXCEPT !.cycles = q[Len(q)].time]
        ELSE s1

\* CoreTiming::Idle: with no runnable thread the clock jumps to the next event
Idle(s) ==
    LET s1 == Call(s, "Idle")
    IN  IF s1.event_queue # <<>> /\ Head(s1.event_queue).time > s1.cycles
        THEN [s1 EXCEPT !.cycles = Head(s1.event_queue).time]
        ELSE s1

\* a wake-up that switches to the woken thread at once
ThreadWakeupCallback_Switch(s, t) ==
    IF s.thread_state[t] = "WaitSleep"
    THEN PrepareReschedule([s EXCEPT !.thread_state[t] = "Ready",
                                     !.current_thread = t])
    ELSE s

\* Thread::ResumeFromWait, reached from the thread wake-up timer callback
ThreadWakeupCallback(s, t) ==
    IF s.thread_state[t] = "WaitSleep"
    THEN PrepareReschedule([s EXCEPT !.thread_state[t] = "Ready"])
    ELSE s

\* a callback that schedules the next update one hour after it ran
UpdateTimeCallback_IgnoreLate(s, userdata, cycles_late) ==
    LET s1 == IF s.date_time_counter % 2 = 1
              THEN [s EXCEPT !.date_time_0 = s.cycles]
              ELSE [s EXCEPT !.date_time_1 = s.cycles]
        s2 == [s1 EXCEPT !.date_time_counter = @ + 1]
    IN  ScheduleEvent(s2, HourCycles, "UpdateTime", userdata)

\* a callback that selects the slot by the counter it leaves behind
UpdateTimeCallback_OtherSlot(s, userdata, cycles_late) ==
    LET s1 == IF s.date_time_counter % 2 = 1
              THEN [s EXCEPT !.date_time_1 = s.cycles]
              ELSE [s EXCEPT !.date_time_0 = s.cycles]
        s2 == [s1 EXCEPT !.date_time_counter = @ + 1]
    IN  ScheduleEvent(s2, HourCycles - cycles_late, "UpdateTime", userdata)

\* SharedPage::Handler::UpdateTimeCallback: the slot the counter selects is
\* written, the counter incremented and the next update scheduled
UpdateTimeCallback(s, userdata, cycles_late) ==
    LET s1 == IF s.date_time_counter % 2 = 1
              THEN [s EXCEPT !.date_time_0 = s.cycles]
              ELSE [s EXCEPT !.date_time_1 = s.cycles]
        s2 == [s1 EXCEPT !.date_time_counter = @ + 1]
    IN  ScheduleEvent(s2, HourCycles - cycles_late, "UpdateTime", userdata)

\* the callback registered for an event type
Callback(s, e, cycles_late) ==
    CASE e.type = "ThreadWakeup" -> ThreadWakeupCallback(s, e.userdata)
      [] e.type = "UpdateTime" -> UpdateTimeCallback(s, e.userdata, cycles_late)
      [] OTHER -> s

RECURSIVE Drain(_)
Drain(s) ==
    IF s.event_queue # <<>> /\ Head(s.event_queue).time <= s.cycles
    THEN LET e == Head(s.event_queue)
             popped == [s EXCEPT !.event_queue = Tail(@),
                                 !.fired = Append(@, [event |-> e, at |-> s.cycles])]
         IN  Drain(Callback(popped, e, s.cycles - e.time))
    ELSE s

\* CoreTiming::Advance: fire every event that is due
Advance(s) == Drain([Call(s, "Advance") EXCEPT !.fired = <<>>])

\* ------------------------------------------------ the thread scheduler
Priority(t) == t

ReadyThreads(s) == {t \in Threads : s.thread_state[t] = "Ready"}

BestReady(s) ==
    CHOOSE t \in ReadyThreads(s) : \A u \in ReadyThreads(s) : Priority(t) <= Priority(u)

\* the thread Kernel::Reschedule switches to
NextThread(s) ==
    LET cur == s.current_thread
        running == cur # NoThread /\ s.thread_state[cur] = "Running"
    IN  IF running
        THEN IF \E t \in ReadyThreads(s) : Priority(t) < Priority(cur)
             THEN BestReady(s) ELSE cur
        ELSE IF ReadyThreads(s) # {} THEN BestReady(s) ELSE NoThread

\* Kernel::Reschedule that leaves the thread it switches away from Running
KernelReschedule_NoDemote(s) ==
    LET s1 == Call(s, "Kernel::Reschedule")
        cur == s1.current_thread
        next == NextThread(s1)
    IN  IF next = cur THEN s1
        ELSE [s1 EXCEPT !.current_thread = next,
                        !.thread_state = IF next # NoThread
                                         THEN [@ EXCEPT ![next] = "Running"]
                                         ELSE @]

\* Kernel::Reschedule
KernelReschedule(s) ==
    LET s1 == Call(s, "Kernel::Reschedule")
        cur == s1.current_thread
        next == NextThread(s1)
        demoted == IF cur # NoThread /\ s1.thread_state[cur] = "Running"
                   THEN [s1.thread_state EXCEPT ![cur] = "Ready"]
                   ELSE s1.thread_state
    IN  IF next = cur THEN s1
        ELSE [s1 EXCEPT !.current_thread = next,
                        !.thread_state = IF next # NoThread
                                         THEN [demoted EXCEPT ![next] = "Running"]
                                         ELSE demoted]

\* Reschedule that leaves reschedule_pending set
Reschedule_KeepPending(s) ==
    LET s1 == Call(s, "Reschedule")
    IN  IF ~s1.reschedule_pending THEN s1 ELSE KernelReschedule(s1)

\* Reschedule without the test of reschedule_pending
Reschedule_Unconditional(s) ==
    KernelReschedule([Call(s, "Reschedule") EXCEPT !.reschedule_pending = FALSE])

\* System::Reschedule
Reschedule(s) ==
    LET s1 == Call(s, "Reschedule")
    IN  IF ~s1.reschedule_pending THEN s1
        ELSE KernelReschedule([s1 EXCEPT !.reschedule_pending = FALSE])

\* ------------------------------------------------------- the CPU core
GuestEffects == {"none", "yield", "sleep", "wait", "signal", "create", "exit"}

\* what the guest code of the current thread does in one slice: eff is the
\* system call it ends with, u the thread the call is about, d the delay of a
\* sleep, ticks the cycles the slice took
GuestCall(s, eff, u, d) ==
    LET t == s.current_thread
    IN  CASE eff = "yield" -> PrepareReschedule(s)
          [] eff = "sleep" ->
                PrepareReschedule(
                    ScheduleEvent([s EXCEPT !.thread_state[t] = "WaitSleep"],
                                  d, "ThreadWakeup", t))
          [] eff = "wait" -> PrepareReschedule([s EXCEPT !.thread_state[t] = "WaitSynch"])
          [] eff = "signal" -> PrepareReschedule([s EXCEPT !.thread_state[u] = "Ready"])
          [] eff = "create" -> PrepareReschedule([s EXCEPT !.thread_state[u] = "Ready"])
          [] eff = "exit" -> PrepareReschedule([s EXCEPT !.thread_state[t] = "Dead"])
          [] OTHER -> s

GuestCallEnabled(s, eff, u, d) ==
    CASE eff = "sleep" -> s.cycles + d <= MaxCycles
      [] eff = "signal" -> s.thread_state[u] = "WaitSynch"
      [] eff = "create" -> s.thread_state[u] = "Dormant"
      [] OTHER -> TRUE

\* ARM_Interface::Run
CpuRun(s, ticks, eff, u, d) ==
    GuestCall([Call(Deref(s, s.cpu_core), "Run") EXCEPT !.cycles = @ + ticks], eff, u, d)

\* HW::Update
HWUpdate(s) == Call(s, "HW::Update")

\* ------------------------------------------------- System: the lifecycle
AllDormant == [t \in Threads |-> "Dormant"]

\* CoreTiming::Init
CoreTimingInit(s) ==
    [Call(s, "CoreTiming::Init") EXCEPT !.inited = @ \cup {"CoreTiming"},
                                        !.cycles = 0, !.event_queue = <<>>,
                                        !.fired = <<>>]

\* CoreTiming::Shutdown
CoreTimingShutdown(s) ==
    [Call(s, "CoreTiming::Shutdown") EXCEPT !.inited = @ \ {"CoreTiming"},
                                            !.event_queue = <<>>,
                                            !.fired = <<>>]

\* Kernel::Init
KernelInit(s) ==
    [Call(s, "Kernel::Init") EXCEPT !.inited = @ \cup {"Kernel"},
                                    !.thread_state = AllDormant,
                                    !.current_thread = NoThread]

\* Kernel::Shutdown
KernelShutdown(s) ==
    [Call(s, "Kernel::Shutdown") EXCEPT !.inited = @ \ {"Kernel"},
                                        !.thread_state = AllDormant,
                                        !.current_thread = NoThread]

\* Init / Shutdown of a subsystem that has no other state in the model
ModuleInit(s, m) == [Call(s, m \o "::Init") EXCEPT !.inited = @ \cup {m}]
ModuleShutdown(s, m) == [Call(s, m \o "::Shutdown") EXCEPT !.inited = @ \ {m}]

\* what a collaborator answered, logged behind the call
Answered(s, r) == Call(s, "= " \o r)

\* VideoCore::Init, which can fail
VideoCoreInit(s, video_result) ==
    Answered(IF video_result = "Success" THEN ModuleInit(s, "VideoCore")
             ELSE Call(s, "VideoCore::Init"),
             video_result)

\* SharedPage::Handler::Handler: the page is zeroed, the time-update event
\* registered and its first occurrence scheduled at once
HandlerInit(s) ==
    LET s1 == [Call(s, "SharedPage::Handler") EXCEPT !.date_time_counter = 0,
                                                     !.date_time_0 = 0,
                                                     !.date_time_1 = 0]
        s2 == Call(s1, "CoreTiming::RegisterEvent")
    IN  ScheduleEvent(Call(s2, "CoreTiming::ScheduleEvent"), 0, "UpdateTime", 0)

\* Init that constructs the shared page handler before the timer is
\* initialized
Init_HandlerFirst(s, video_result) ==
    LET s0 == [HandlerInit(Call(s, "Init")) EXCEPT !.shared_page_handler = TRUE]
        s1 == CoreTimingInit(s0)
        s2 == [Call(s1, "cpu_core.make") EXCEPT !.cpu_core = TRUE]
        s3 == [Call(s2, "qt_callbacks.make") EXCEPT !.qt_callbacks = TRUE]
        s4 == [Call(s3, "dsp_core.make") EXCEPT !.dsp_core = TRUE]
        s5 == [Call(s4, "rpc_server.make") EXCEPT !.rpc_server = TRUE]
        s6 == [Call(s5, "service_manager.make") EXCEPT !.service_manager = TRUE]
        s8 == ModuleInit(ModuleInit(KernelInit(ModuleInit(s6, "HW")), "Service"),
                         "CheatCore")
        s9 == VideoCoreInit(s8, video_result)
    IN  [s9 EXCEPT !.result = video_result]

\* System::Init
Init(s, video_result) ==
    LET s1 == CoreTimingInit(Call(s, "Init"))
        s2 == [Call(s1, "cpu_core.make") EXCEPT !.cpu_core = TRUE]
        s3 == [Call(s2, "qt_callbacks.make") EXCEPT !.qt_callbacks = TRUE]
        s4 == [Call(s3, "dsp_core.make") EXCEPT !.dsp_core = TRUE]
        s5 == [Call(s4, "rpc_server.make") EXCEPT !.rpc_server = TRUE]
        s6 == [Call(s5, "service_manager.make") EXCEPT !.service_manager = TRUE]
        s7 == [HandlerInit(s6) EXCEPT !.shared_page_handler = TRUE]
        s8 == ModuleInit(ModuleInit(KernelInit(ModuleInit(s7, "HW")), "Service"),
                         "CheatCore")
        s9 == VideoCoreInit(s8, video_result)
    IN  [s9 EXCEPT !.result = video_result]

\* Shutdown that stops the CPU core through its pointer before it resets it
Shutdown_Deref(s) ==
    LET s1 == ModuleShutdown(ModuleShutdown(ModuleShutdown(Call(s, "Shutdown"),
                  "CheatCore"), "VideoCore"), "Service")
        s2 == ModuleShutdown(KernelShutdown(s1), "HW")
        s3 == [Call(s2, "service_manager.reset") EXCEPT !.service_manager = FALSE]
        s4 == [Call(s3, "dsp_core.reset") EXCEPT !.dsp_core = FALSE]
        s5 == [Call(Deref(s4, s4.cpu_core), "cpu_core.reset") EXCEPT !.cpu_core = FALSE]
        s6 == CoreTimingShutdown(s5)
        s7 == [Call(s6, "app_loader.reset") EXCEPT !.app_loader = FALSE]
        s8 == [Call(s7, "qt_callbacks.reset") EXCEPT !.qt_callbacks = FALSE]
    IN  [Call(s8, "rpc_server.reset") EXCEPT !.rpc_server = FALSE]

\* Shutdown that resets the CPU core before it shuts the kernel down
Shutdown_CpuFirst(s) ==
    LET s0 == [Call(Call(s, "Shutdown"), "cpu_core.reset") EXCEPT !.cpu_core = FALSE]
        s1 == ModuleShutdown(ModuleShutdown(ModuleShutdown(s0,
                  "CheatCore"), "VideoCore"), "Service")
        s2 == ModuleShutdown(KernelShutdown(s1), "HW")
        s3 == [Call(s2, "service_manager.reset") EXCEPT !.service_manager = FALSE]
        s4 == [Call(s3, "dsp_core.reset") EXCEPT !.dsp_core = FALSE]
        s6 == CoreTimingShutdown(s4)
        s7 == [Call(s6, "app_loader.reset") EXCEPT !.app_loader = FALSE]
        s8 == [Call(s7, "qt_callbacks.reset") EXCEPT !.qt_callbacks = FALSE]
    IN  [Call(s8, "rpc_server.reset") EXCEPT !.rpc_server = FALSE]

\* System::Shutdown
Shutdown(s) ==
    LET s1 == ModuleShutdown(ModuleShutdown(ModuleShutdown(Call(s, "Shutdown"),
                  "CheatCore"), "VideoCore"), "Service")
        s2 == ModuleShutdown(KernelShutdown(s1), "HW")
        s3 == [Call(s2, "service_manager.reset") EXCEPT !.service_manager = FALSE]
        s4 == [Call(s3, "dsp_core.reset") EXCEPT !.dsp_core = FALSE]
        s5 == [Call(s4, "cpu_core.reset") EXCEPT !.cpu_core = FALSE]
        s6 == CoreTimingShutdown(s5)
        s7 == [Call(s6, "app_loader.reset") EXCEPT !.app_loader = FALSE]
        s8 == [Call(s7, "qt_callbacks.reset") EXCEPT !.qt_callbacks = FALSE]
    IN  [Call(s8, "rpc_server.reset") EXCEPT !.rpc_server = FALSE]

\* every system-mode failure classified as the generic status
SystemModeError_AllGeneric(r) == "ErrorSystemMode"

\* the status Load returns for a failed system-mode query
SystemModeError(r) ==
    CASE r = "ErrorEncrypted" -> "ErrorLoader_ErrorEncrypted"
      [] r = "ErrorInvalidFormat" -> "ErrorLoader_ErrorInvalidFormat"
      [] OTHER -> "ErrorSystemMode"

\* the classification of the system-mode failure path, used for the image
LoadError_AsSystemMode(r) ==
    CASE r = "ErrorEncrypted" -> "ErrorLoader_ErrorEncrypted"
      [] r = "ErrorInvalidFormat" -> "ErrorLoader_ErrorInvalidFormat"
      [] OTHER -> "ErrorSystemMode"

\* the status Load returns for a failed load of the program image
LoadError(r) ==
    CASE r = "ErrorEncrypted" -> "ErrorLoader_ErrorEncrypted"
      [] r = "ErrorInvalidFormat" -> "ErrorLoader_ErrorInvalidFormat"
      [] OTHER -> "ErrorLoader"

\* AppLoader::Load: the loaded process starts with its main thread ready
AppLoad(s, load_result) ==
    Answered(IF load_result = "Success"
             THEN [Call(s, "AppLoader::Load") EXCEPT !.thread_state[1] = "Ready"]
             ELSE Call(s, "AppLoader::Load"),
             load_result)

\* Loader::GetLoader(filepath)
GetLoader(s, filepath, found) ==
    [Call(Call(s, "GetLoader"), filepath) EXCEPT !.app_loader = found]

\* AppLoader::LoadKernelSystemMode
LoadKernelSystemMode(s, mode_result) ==
    Answered(Call(s, "LoadKernelSystemMode"), mode_result)

\* Load that returns a failed image load without Shutdown
Load_NoShutdown(s, filepath, found, mode_result, video_result, load_result) ==
    LET s1 == GetLoader(Call(s, "Load"), filepath, found)
        s2 == LoadKernelSystemMode(s1, mode_result)
        s3 == Init(s2, video_result)
        s4 == AppLoad(s3, load_result)
    IN  IF ~found THEN [s1 EXCEPT !.result = "ErrorGetLoader"]
        ELSE IF mode_result # "Success"
        THEN [s2 EXCEPT !.result = SystemModeError(mode_result)]
        ELSE IF s3.result # "Success"
        THEN [Shutdown(s3) EXCEPT !.result = s3.result]
        ELSE IF load_result # "Success"
        THEN [s4 EXCEPT !.result = LoadError(load_result)]
        ELSE [s4 EXCEPT !.page_table = filepath, !.m_filepath = filepath,
                        !.result = "Success"]

\* Load that calls Init before it tests the loader
Load_InitFirst(s, filepath, found, mode_result, video_result, load_result) ==
    LET s1 == GetLoader(Call(s, "Load"), filepath, found)
        s2 == Init(LoadKernelSystemMode(s1, mode_result), video_result)
    IN  IF ~found THEN [s2 EXCEPT !.result = "ErrorGetLoader"]
        ELSE IF mode_result # "Success"
        THEN [s2 EXCEPT !.result = SystemModeError(mode_result)]
        ELSE IF s2.result # "Success"
        THEN [Shutdown(s2) EXCEPT !.result = s2.result]
        ELSE IF load_result # "Success"
        THEN [Shutdown(AppLoad(s2, load_result)) EXCEPT !.result = LoadError(load_result)]
        ELSE [AppLoad(s2, load_result) EXCEPT !.page_table = filepath,
                                              !.m_filepath = filepath,
                                              !.result = "Success"]

\* Load that returns one fixed status for every Init failure
Load_InitStatusLost(s, filepath, found, mode_result, video_result, load_result) ==
    LET s1 == GetLoader(Call(s, "Load"), filepath, found)
        s2 == LoadKernelSystemMode(s1, mode_result)
        s3 == Init(s2, video_result)
        s4 == AppLoad(s3, load_result)
    IN  IF ~found THEN [s1 EXCEPT !.result = "ErrorGetLoader"]
        ELSE IF mode_result # "Success"
        THEN [s2 EXCEPT !.result = SystemModeError(mode_result)]
        ELSE IF s3.result # "Success"
        THEN [Shutdown(s3) EXCEPT !.result = "ErrorVideoCore"]
        ELSE IF load_result # "Success"
        THEN [Shutdown(s4) EXCEPT !.result = LoadError(load_result)]
        ELSE [s4 EXCEPT !.page_table = filepath, !.m_filepath = filepath,
                        !.result = "Success"]

\* System::Load.  found: Loader::GetLoader returns a loader for the path;
\* mode_result, video_result, load_result: what LoadKernelSystemMode,
\* VideoCore::Init and AppLoader::Load answer
Load(s, filepath, found, mode_result, video_result, load_result) ==
    LET s1 == GetLoader(Call(s, "Load"), filepath, found)
        s2 == LoadKernelSystemMode(s1, mode_result)
        s3 == Init(s2, video_result)
        s4 == AppLoad(s3, load_result)
    IN  IF ~found THEN [s1 EXCEPT !.result = "ErrorGetLoader"]
        ELSE IF mode_result # "Success"
        THEN [s2 EXCEPT !.result = SystemModeError(mode_result)]
        ELSE IF s3.result # "Success"
        THEN [Shutdown(s3) EXCEPT !.result = s3.result]
        ELSE IF load_result # "Success"
        THEN [Shutdown(s4) EXCEPT !.result = LoadError(load_result)]
        ELSE [s4 EXCEPT !.page_table = filepath, !.m_filepath = filepath,
                        !.result = "Success"]

\* Service::AM::GetTitleContentPath
GetTitleContentPath(media, tid) == IF media = "NAND" THEN "nand:/title" ELSE "sdmc:/title"

\* Jump that reloads from the title path whatever the title id
Jump_AlwaysTitle(s, found, mode_result, video_result, load_result) ==
    LET s1 == Deref(Shutdown(Call(s, "Jump")), s.m_filepath # NoPath)
    IN  Load(s1, GetTitleContentPath(s1.jump_media, s1.jump_tid),
             found, mode_result, video_result, load_result)

\* System::Jump
Jump(s, found, mode_result, video_result, load_result) ==
    LET s1 == Deref(Shutdown(Call(s, "Jump")), s.m_filepath # NoPath)
    IN  IF s1.jump_tid = 0
        THEN Load(s1, s1.m_filepath, found, mode_result, video_result, load_result)
        ELSE Load(s1, GetTitleContentPath(s1.jump_media, s1.jump_tid),
                  found, mode_result, video_result, load_result)

\* ------------------------------------------------------- CECD: the files
\* Module::CheckAndUpdateFile: the size of the box table and of a box name
max_num_boxes == 24
valid_name_size == 8

\* the magic numbers 'hh' (0x6868) and 'gg' (0x6767)
MBoxListMagic == 26728
OBIndexMagic == 26471

\* sizeof(CecOBIndexHeader)
OBIndexHeaderSize == 8

\* the program ids a client passes; 0 stands for no program
ProgramIds == 0..MaxTitles

\* a u32 as its two 16-bit halves, the upper one first
HalfWord == 65536
U32(x) == <<x \div HalfWord, x % HalfWord>>

\* x - y computed in u32, for x and y below 2^16: a negative difference wraps
U32Sub(x, y) ==
    IF x >= y THEN U32(x - y) ELSE <<HalfWord - 1, (HalfWord + x - y) % HalfWord>>

HexDigits == <<"0", "1", "2", "3", "4", "5", "6", "7",
               "8", "9", "a", "b", "c", "d", "e", "f">>

\* Common::StringFromFormat("%08x", id): eight lower-case hexadecimal digits
Hex8(id) == [i \in 1..valid_name_size |-> HexDigits[((id \div (16 ^ (valid_name_size - i))) % 16) + 1]]

\* the valid part of a box name that was never written: null bytes
NulName == [i \in 1..valid_name_size |-> "NUL"]

\* the name of the box list file in the /CEC directory
MBoxListName == <<"M", "B", "o", "x", "L", "i", "s", "t", "_", "_", "_", "_">>

\* std::memset(&mbox_list_header, 0, sizeof(CecMBoxListHeader))
ZeroMBoxList ==
    [magic |-> 0, version |-> 0, num_boxes |-> 0,
     box_names |-> [i \in 1..max_num_boxes |-> NulName]]

\* the magic number and version checks of a box list header
CheckMBoxMagic(h) ==
    LET m == IF h.magic # MBoxListMagic
             THEN [ZeroMBoxList EXCEPT !.magic = MBoxListMagic] ELSE h
    IN  IF m.version # 1 THEN [m EXCEPT !.version = 1] ELSE m

\* the loop that compares the title's name with the names of the boxes
AlreadyActivated(h, name) == \E i \in 1..h.num_boxes : h.box_names[i] = name

\* ncch_program_id != 0: the title is added unless it is activated already
\* or the table is full
AddBox(h, ncch_program_id) ==
    IF ~AlreadyActivated(h, Hex8(ncch_program_id)) /\ h.num_boxes < max_num_boxes
    THEN [h EXCEPT !.box_names[h.num_boxes + 1] = Hex8(ncch_program_id),
                   !.num_boxes = @ + 1]
    ELSE h

\* ncch_program_id == 0: every entry of the /CEC directory but the box list
\* itself is written to the slot behind the last box; a slot behind the end
\* of the table is a write outside the header
RECURSIVE RebuildBoxes(_, _)
RebuildBoxes(s, entries) ==
    IF entries = <<>> THEN s
    ELSE IF Head(entries) = MBoxListName THEN RebuildBoxes(s, Tail(entries))
    ELSE LET h == s.file_buffer
             inside == h.num_boxes < max_num_boxes
             names == IF inside
                      THEN [h.box_names EXCEPT ![h.num_boxes + 1] =
                                SubSeq(Head(entries), 1, valid_name_size)]
                      ELSE h.box_names
             written == [h EXCEPT !.box_names = names, !.num_boxes = @ + 1]
             t == [s EXCEPT !.file_buffer = written]
         IN  RebuildBoxes(IF inside THEN t ELSE Call(t, "box_names overflow"),
                          Tail(entries))

\* root_dir->backend->Read(max_num_boxes + 1, entries.data())
ReadEntries(entries) ==
    SubSeq(entries, 1, IF Len(entries) < max_num_boxes + 1 THEN Len(entries)
                       ELSE max_num_boxes + 1)

\* case CEC_PATH_MBOX_LIST
CheckMBoxList(s, ncch_program_id, entries) ==
    LET h == CheckMBoxMagic(s.file_buffer)
        t == [s EXCEPT !.file_buffer = h]
    IN  IF h.num_boxes > 24 THEN t
        ELSE IF ncch_program_id # 0
        THEN [t EXCEPT !.file_buffer = AddBox(h, ncch_program_id)]
        ELSE RebuildBoxes(Call(t, "OpenDirectoryFromArchive"), ReadEntries(entries))

\* case CEC_PATH_OUTBOX_INDEX
CheckOBIndex(b) ==
    LET m == IF b.magic # OBIndexMagic THEN [b EXCEPT !.magic = OBIndexMagic] ELSE b
    IN  IF m.message_num = U32(0) /\ b.file_size > OBIndexHeaderSize
        THEN [m EXCEPT !.message_num = U32Sub(b.file_size % 8, 1)]
        ELSE m

\* Module::CheckAndUpdateFile on the buffer s.file_buffer; entries is what
\* the /CEC directory holds
CheckAndUpdateFile(s, path_type, ncch_program_id, entries) ==
    LET t == Call(s, "CheckAndUpdateFile")
    IN  CASE path_type = "CEC_PATH_MBOX_LIST" -> CheckMBoxList(t, ncch_program_id, entries)
          [] path_type = "CEC_PATH_OUTBOX_INDEX" ->
                [t EXCEPT !.file_buffer = CheckOBIndex(@)]
          [] OTHER -> t

\* ---------------------------------------------------- CECD: the session
FilePathTypes == {"CEC_PATH_MBOX_LIST", "CEC_PATH_OUTBOX_INDEX", "CEC_MBOX_PROGRAM_ID"}
DirPathTypes == {"CEC_PATH_ROOT_DIR"}
PathTypes == FilePathTypes \cup DirPathTypes

\* session_data->file is null
NoFile == "null"

\* a buffer that holds nothing
NoBuffer == [file_size |-> 0]

\* the CECD state as one record, the argument of the request handlers
CecdState ==
    [session_data |-> session_data, read_buffer |-> read_buffer,
     file_buffer |-> file_buffer, last_open |-> last_open,
     calls |-> calls, result |-> result]

\* a call through session_data->file->backend
FileCall(s, name) == Call(Deref(s, s.session_data.file # NoFile), "file." \o name)

\* Module::Interface::Open; opened is the answer of OpenDirectoryFromArchive
\* or OpenFileFromArchive
Open(s, ncch_program_id, path_type, check, create, opened) ==
    LET s1 == [s EXCEPT !.calls = <<"Open">>,
                        !.session_data.ncch_program_id = ncch_program_id,
                        !.session_data.check = check,
                        !.session_data.data_path_type = path_type]
    IN  IF path_type \in DirPathTypes
        THEN LET s2 == Call(s1, "OpenDirectoryFromArchive")
                 s3 == IF ~opened /\ create
                       THEN Call(s2, "CreateDirectoryFromArchive") ELSE s2
             IN  [s3 EXCEPT !.result = IF ~opened /\ ~create THEN "NoData" ELSE "Success",
                            !.last_open = "directory"]
        ELSE LET s2 == Call(s1, "OpenFileFromArchive")
                 s3 == IF opened
                       THEN FileCall([s2 EXCEPT !.session_data.file = path_type,
                                                !.result = "Success",
                                                !.last_open = "file"], "GetSize")
                       ELSE [s2 EXCEPT !.result = "NoData", !.last_open = "failed"]
             IN  IF path_type = "CEC_MBOX_PROGRAM_ID"
                 THEN FileCall(FileCall(s3, "Write"), "Close")
                 ELSE s3

\* Module::Interface::Read
Read(s) ==
    LET s1 == [s EXCEPT !.calls = <<"Read">>]
    IN  IF s.session_data.data_path_type \in DirPathTypes
        THEN [s1 EXCEPT !.result = "NotAuthorized"]
        ELSE [FileCall(FileCall(s1, "Read"), "Close") EXCEPT !.result = "Success"]

\* Module::Interface::Write; buffer is what the guest sends and entries what
\* the /CEC directory holds
Write(s, buffer, entries) ==
    LET s1 == [s EXCEPT !.calls = <<"Write">>, !.read_buffer = buffer]
    IN  IF s.session_data.data_path_type \in DirPathTypes
        THEN [s1 EXCEPT !.result = "NotAuthorized"]
        ELSE LET s2 == [s1 EXCEPT !.file_buffer = buffer]
                 s3 == IF s.session_data.check
                       THEN CheckAndUpdateFile(s2, s.session_data.data_path_type,
                                               s.session_data.ncch_program_id, entries)
                       ELSE s2
             IN  [FileCall(FileCall(s3, "Write"), "Close") EXCEPT !.result = "Success"]

\* ------------------------------------------------------ CECD: the inputs
\* a box table whose first n slots hold the titles 2, 4, 6 and so on
Table(n) ==
    [i \in 1..max_num_boxes |-> IF i <= n THEN Hex8(2 * i) ELSE NulName]

\* the numbers of boxes of the headers the guest sends
BoxCounts == (0..MaxTitles) \cup {max_num_boxes - 1, max_num_boxes, max_num_boxes + 1}

MBoxListBuffers ==
    {[magic |-> m, version |-> 1, num_boxes |-> n,
      box_names |-> Table(IF n < max_num_boxes THEN n ELSE max_num_boxes)] :
        m \in {MBoxListMagic, 0}, n \in BoxCounts}

\* the sizes of the outbox index files the guest sends: the header alone and
\* up to MaxMessages message ids of 8 bytes, whole or half
OBIndexSizes == {OBIndexHeaderSize + 4 * k : k \in 0..(2 * MaxMessages)}

OBIndexBuffers ==
    {[file_size |-> z, magic |-> m, message_num |-> U32(k)] :
        z \in OBIndexSizes, m \in {OBIndexMagic, 0}, k \in 0..1}

\* the buffers a guest sends to a file of the path type
Buffers(path_type) ==
    CASE path_type = "CEC_PATH_MBOX_LIST" -> MBoxListBuffers
      [] path_type = "CEC_PATH_OUTBOX_INDEX" -> OBIndexBuffers
      [] OTHER -> {[file_size |-> 8]}

\* what the /CEC directory lists: the box list and the boxes of k titles
Listings ==
    {<<MBoxListName>> \o [i \in 1..k |-> Hex8(i)] : k \in 0..MaxTitles}

\* -------------------------------------------------- Config: the settings
Cameras == {"OuterRightCamera", "InnerCamera", "OuterLeftCamera"}

\* the key under which ReadValues looks for a camera's flip
FlipKey(c) ==
    CASE c = "OuterRightCamera" -> "camera_outer_right_flip"
      [] c = "InnerCamera" -> "camera_inner_flip"
      [] c = "OuterLeftCamera" -> "camera_outer_left_flip"

\* the keys of qt-config.ini that are modelled
Keys == {"sp_enable_3d", "layout_option", "gameListRootDir", "gamedirs"}
            \cup {FlipKey(c) : c \in Cameras}

\* QVariant: a value with its type; an absent key reads as the invalid one
Invalid == [type |-> "invalid"]
Boolean(b) == [type |-> "bool", v |-> b]
Number(n) == [type |-> "int", v |-> n]
String(str) == [type |-> "string", v |-> str]
Array(a) == [type |-> "array", v |-> a]

Digits == <<"0", "1", "2", "3", "4", "5", "6", "7", "8", "9">>

\* QVariant::toBool
toBool(x) ==
    CASE x.type = "bool" -> x.v
      [] x.type = "int" -> x.v # 0
      [] x.type = "string" -> x.v \notin {"", "0", "false"}
      [] OTHER -> FALSE

\* QVariant::toInt, for the strings that are stored: none is a number
toInt(x) ==
    CASE x.type = "bool" -> IF x.v THEN 1 ELSE 0
      [] x.type = "int" -> x.v
      [] OTHER -> 0

\* QVariant::toString, for the numbers 0..9
toString(x) ==
    CASE x.type = "string" -> x.v
      [] x.type = "bool" -> IF x.v THEN "true" ELSE "false"
      [] x.type = "int" -> Digits[x.v + 1]
      [] OTHER -> ""

\* QSettings::value(key, default)
Value(q, key, default) == IF q[key].type = "invalid" THEN default ELSE q[key]

\* the entries of the array stored under the key, none when it is absent
ReadArray(q, key) == IF q[key].type = "array" THEN q[key].v ELSE <<>>

\* the game directories that ReadValues creates when the list is empty;
\* gameListDeepScan is not in the file and reads as its default, false
DefaultGameDirs(deprecated) ==
    <<[path |-> "INSTALLED", deep_scan |-> FALSE, expanded |-> TRUE],
      [path |-> "SYSTEM", deep_scan |-> FALSE, expanded |-> TRUE]>>
    \o (IF deprecated # "."
        THEN <<[path |-> deprecated, deep_scan |-> FALSE, expanded |-> TRUE]>>
        ELSE <<>>)

\* Config::ReadValues on the settings v and the stored keys q: the settings
\* it leaves
ReadValues(v, q) ==
    LET stored == ReadArray(q, "gamedirs")
        deprecated == toString(Value(q, "gameListRootDir", String(".")))
        read == v.game_dirs \o
                [i \in 1..Len(stored) |->
                    [path |-> toString(stored[i].path),
                     deep_scan |-> toBool(stored[i].deep_scan),
                     expanded |-> toBool(stored[i].expanded)]]
    IN  [sp_enable_3d |-> toBool(Value(q, "sp_enable_3d", Boolean(FALSE))),
         layout_option |-> toInt(q["layout_option"]),
         camera_flip |-> [c \in Cameras |-> toInt(Value(q, FlipKey(c), Number(0)))],
         game_dir_deprecated |-> deprecated,
         game_dirs |-> IF read = <<>> THEN DefaultGameDirs(deprecated) ELSE read]

\* Config::SaveValues on the settings v and the stored keys q: the keys it
\* leaves
SaveValues(v, q) ==
    [q EXCEPT !["sp_enable_3d"] = Boolean(v.sp_enable_3d),
              !["layout_option"] = Number(v.layout_option),
              !["gamedirs"] =
                  Array([i \in 1..Len(v.game_dirs) |->
                            [path |-> String(v.game_dirs[i].path),
                             deep_scan |-> Boolean(v.game_dirs[i].deep_scan),
                             expanded |-> Boolean(v.game_dirs[i].expanded)]])]

\* the settings before the first ReadValues
NoValues ==
    [sp_enable_3d |-> FALSE, layout_option |-> 0,
     camera_flip |-> [c \in Cameras |-> 0],
     game_dir_deprecated |-> "", game_dirs |-> <<>>]

\* a qt-config.ini that does not exist yet
EmptyConfig == [k \in Keys |-> Invalid]

\* the files that Config::Config finds: none, or one that an earlier version
\* wrote, with a flipped inner camera and the deprecated game directory
ConfigFiles ==
    {EmptyConfig,
     [EmptyConfig EXCEPT !["camera_inner_flip"] = Number(1),
                         !["gameListRootDir"] = String("roms")]}

\* --------------------------------------------- the services on their own
\* the CECD session and the configuration while nobody uses them
ServicesInit ==
    /\ session_data = [ncch_program_id |-> 0, data_path_type |-> "CEC_PATH_ROOT_DIR",
                       check |-> FALSE, file |-> NoFile]
    /\ read_buffer = NoBuffer /\ file_buffer = NoBuffer
    /\ last_open = "none"
    /\ qt_config = EmptyConfig
    /\ values = ReadValues(NoValues, EmptyConfig)

\* ------------------------------------------------------------ the actions
hostvars == <<host_pc, rl_idle, rl_seen_jump, rl_seen_shutdown>>
rlvars == <<rl_idle, rl_seen_jump, rl_seen_shutdown>>

SpecInit ==
    /\ cpu_core = FALSE /\ dsp_core = FALSE /\ rpc_server = FALSE
    /\ service_manager = FALSE /\ shared_page_handler = FALSE
    /\ qt_callbacks = FALSE /\ app_loader = FALSE
    /\ inited = {}
    /\ reschedule_pending = FALSE
    /\ jump_requested = FALSE /\ shutdown_requested = FALSE
    /\ jump_tid = 0 /\ jump_media = "NAND"
    /\ m_filepath = NoPath /\ page_table = NoPath
    /\ thread_state = AllDormant /\ current_thread = NoThread
    /\ cycles = 0 /\ event_queue = <<>>
    /\ date_time_counter = 0 /\ date_time_0 = 0 /\ date_time_1 = 0
    /\ fired = <<>>
    /\ calls = <<>> /\ result = "none"
    /\ host_pc = "host" /\ rl_idle = FALSE
    /\ rl_seen_jump = FALSE /\ rl_seen_shutdown = FALSE
    /\ ServicesInit

\* the host calls System::RunLoop
RunLoopEnter ==
    /\ host_pc = "host"
    /\ host_pc' = "rl_enter"
    /\ UNCHANGED <<progvars, fired, calls, result, rlvars>>

\* RunLoop without the test of cpu_core
RunLoopCheck_NoGuard ==
    /\ host_pc = "rl_enter"
    /\ Commit([State EXCEPT !.calls = <<>>, !.result = "none"])
    /\ rl_idle' = (current_thread = NoThread)
    /\ rl_seen_jump' = FALSE
    /\ rl_seen_shutdown' = FALSE
    /\ host_pc' = IF current_thread = NoThread THEN "rl_idle" ELSE "rl_advance"

\* RunLoop: the test of cpu_core and of the current thread
RunLoopCheck ==
    /\ host_pc = "rl_enter"
    /\ IF ~cpu_core
       THEN /\ Commit([State EXCEPT !.calls = <<>>, !.result = "ErrorNotInitialized"])
            /\ host_pc' = "host"
            /\ rl_idle' = FALSE /\ rl_seen_jump' = FALSE /\ rl_seen_shutdown' = FALSE
       ELSE /\ Commit([State EXCEPT !.calls = <<>>, !.result = "none"])
            /\ rl_idle' = (current_thread = NoThread)
            /\ rl_seen_jump' = FALSE
            /\ rl_seen_shutdown' = FALSE
            /\ host_pc' = IF current_thread = NoThread THEN "rl_idle" ELSE "rl_advance"

\* the idle branch without its call of CoreTiming::Idle()
RunLoopIdle_Skipped ==
    /\ host_pc = "rl_idle"
    /\ host_pc' = "rl_advance"
    /\ UNCHANGED <<progvars, fired, calls, result, rlvars>>

\* RunLoop: CoreTiming::Idle() of the idle branch
RunLoopIdle ==
    /\ host_pc = "rl_idle"
    /\ Idle(State).cycles <= MaxCycles
    /\ Commit(Idle(State))
    /\ host_pc' = "rl_advance"
    /\ UNCHANGED rlvars

\* RunLoop: CoreTiming::Advance() of either branch
RunLoopAdvance ==
    /\ host_pc = "rl_advance"
    /\ Commit(Advance(State))
    /\ host_pc' = IF rl_idle THEN "rl_prepare" ELSE "rl_run"
    /\ UNCHANGED rlvars

\* RunLoop: PrepareReschedule() of the idle branch
RunLoopPrepare ==
    /\ host_pc = "rl_prepare"
    /\ Commit(PrepareReschedule(State))
    /\ host_pc' = "rl_hw"
    /\ UNCHANGED rlvars

\* RunLoop: cpu_core->Run() of the branch with a current thread
RunLoopRun ==
    /\ host_pc = "rl_run"
    /\ \E ticks \in 0..1, eff \in GuestEffects, u \in Threads, d \in Delays :
          /\ cycles + ticks <= MaxCycles
          /\ GuestCallEnabled([State EXCEPT !.cycles = @ + ticks], eff, u, d)
          /\ Commit(CpuRun(State, ticks, eff, u, d))
    /\ host_pc' = "rl_hw"
    /\ UNCHANGED rlvars

\* RunLoop that tests shutdown_requested before the hardware update
RunLoopHWUpdate_EarlyShutdown ==
    /\ host_pc = "rl_hw"
    /\ IF shutdown_requested
       THEN /\ Commit([State EXCEPT !.shutdown_requested = FALSE,
                                    !.result = "ShutdownRequested"])
            /\ host_pc' = "host"
       ELSE /\ Commit(HWUpdate(State))
            /\ host_pc' = "rl_resched"
    /\ UNCHANGED rlvars

\* RunLoop: HW::Update()
RunLoopHWUpdate ==
    /\ host_pc = "rl_hw"
    /\ Commit(HWUpdate(State))
    /\ host_pc' = "rl_resched"
    /\ UNCHANGED rlvars

\* RunLoop: Reschedule()
RunLoopReschedule ==
    /\ host_pc = "rl_resched"
    /\ Commit(Reschedule(State))
    /\ host_pc' = "rl_flags"
    /\ UNCHANGED rlvars

\* the end of RunLoop with a jump that leaves jump_requested set
RunLoopFlags_KeepJump(s, found, mode_result, video_result, load_result) ==
    IF s.jump_requested
    THEN [Jump(s, found, mode_result, video_result, load_result)
            EXCEPT !.result = "Success"]
    ELSE IF s.shutdown_requested
    THEN [s EXCEPT !.shutdown_requested = FALSE, !.result = "ShutdownRequested"]
    ELSE [s EXCEPT !.result = "Success"]

\* the end of RunLoop with the two tests in the other order
RunLoopFlags_ShutdownFirst(s, found, mode_result, video_result, load_result) ==
    IF s.shutdown_requested
    THEN [s EXCEPT !.shutdown_requested = FALSE, !.result = "ShutdownRequested"]
    ELSE IF s.jump_requested
    THEN [Jump([s EXCEPT !.jump_requested = FALSE],
               found, mode_result, video_result, load_result)
            EXCEPT !.result = "Success"]
    ELSE [s EXCEPT !.result = "Success"]

\* the end of RunLoop with a shutdown request that tears the session down
RunLoopFlags_ShutdownTearsDown(s, found, mode_result, video_result, load_result) ==
    IF s.jump_requested
    THEN [Jump([s EXCEPT !.jump_requested = FALSE],
               found, mode_result, video_result, load_result)
            EXCEPT !.result = "Success"]
    ELSE IF s.shutdown_requested
    THEN [Shutdown(s) EXCEPT !.shutdown_requested = FALSE,
                             !.result = "ShutdownRequested"]
    ELSE [s EXCEPT !.result = "Success"]

\* the end of RunLoop with a jump that clears the shutdown request as well
RunLoopFlags_JumpDropsShutdown(s, found, mode_result, video_result, load_result) ==
    IF s.jump_requested
    THEN [Jump([s EXCEPT !.jump_requested = FALSE, !.shutdown_requested = FALSE],
               found, mode_result, video_result, load_result)
            EXCEPT !.result = "Success"]
    ELSE IF s.shutdown_requested
    THEN [s EXCEPT !.shutdown_requested = FALSE, !.result = "ShutdownRequested"]
    ELSE [s EXCEPT !.result = "Success"]

\* the end of RunLoop: the two exchanges, Jump() and the return
RunLoopFlags(s, found, mode_result, video_result, load_result) ==
    IF s.jump_requested
    THEN [Jump([s EXCEPT !.jump_requested = FALSE],
               found, mode_result, video_result, load_result)
            EXCEPT !.result = "Success"]
    ELSE IF s.shutdown_requested
    THEN [s EXCEPT !.shutdown_requested = FALSE, !.result = "ShutdownRequested"]
    ELSE [s EXCEPT !.result = "Success"]

RunLoopFinish ==
    /\ host_pc = "rl_flags"
    /\ \E i \in LoadInputs :
          Commit(RunLoopFlags(State, i.found, i.mode_result, i.video_result,
                              i.load_result))
    /\ host_pc' = "host"
    /\ rl_seen_jump' = jump_requested
    /\ rl_seen_shutdown' = shutdown_requested
    /\ UNCHANGED rl_idle

\* the host calls System::Load
HostLoad ==
    /\ host_pc = "host"
    /\ \E filepath \in Paths, i \in LoadInputs :
          Commit(Load([State EXCEPT !.calls = <<>>], filepath, i.found, i.mode_result,
                      i.video_result, i.load_result))
    /\ rl_idle' = FALSE /\ rl_seen_jump' = FALSE /\ rl_seen_shutdown' = FALSE
    /\ UNCHANGED host_pc

\* the host calls System::Shutdown
HostShutdown ==
    /\ host_pc = "host"
    /\ Commit([Shutdown([State EXCEPT !.calls = <<>>]) EXCEPT !.result = "none"])
    /\ rl_idle' = FALSE /\ rl_seen_jump' = FALSE /\ rl_seen_shutdown' = FALSE
    /\ UNCHANGED host_pc

\* System::RequestJump, from another host thread
RequestJump ==
    /\ \E target \in JumpTargets :
          Commit([State EXCEPT !.jump_requested = TRUE, !.jump_tid = target[1],
                               !.jump_media = target[2]])
    /\ UNCHANGED hostvars

\* System::RequestShutdown, from another host thread
RequestShutdown ==
    /\ Commit([State EXCEPT !.shutdown_requested = TRUE])
    /\ UNCHANGED hostvars

Next ==
    \/ RunLoopEnter
    \/ RunLoopCheck
    \/ RunLoopIdle
    \/ RunLoopAdvance
    \/ RunLoopPrepare
    \/ RunLoopRun
    \/ RunLoopHWUpdate
    \/ RunLoopReschedule
    \/ RunLoopFinish
    \/ HostLoad
    \/ HostShutdown
    \/ RequestJump
    \/ RequestShutdown

Spec == SpecInit /\ [][Next]_vars

\* ------------------------------------------------- the timer on its own
\* a session whose timer is initialized and whose clients schedule events,
\* let the clock run and call Advance in any order
TimerInit ==
    /\ cpu_core = FALSE /\ dsp_core = FALSE /\ rpc_server = FALSE
    /\ service_manager = FALSE /\ shared_page_handler = FALSE
    /\ qt_callbacks = FALSE /\ app_loader = FALSE
    /\ inited = {"CoreTiming"}
    /\ reschedule_pending = FALSE
    /\ jump_requested = FALSE /\ shutdown_requested = FALSE
    /\ jump_tid = 0 /\ jump_media = "NAND"
    /\ m_filepath = NoPath /\ page_table = NoPath
    /\ thread_state = AllDormant /\ current_thread = NoThread
    /\ cycles = 0 /\ event_queue = <<>>
    /\ date_time_counter = 0 /\ date_time_0 = 0 /\ date_time_1 = 0
    /\ fired = <<>>
    /\ calls = <<>> /\ result = "none"
    /\ host_pc = "host"
    /\ rl_idle = FALSE /\ rl_seen_jump = FALSE /\ rl_seen_shutdown = FALSE
    /\ ServicesInit

\* a client calls CoreTiming::ScheduleEvent with a delay of zero or more
\* cycles; userdata numbers the calls in the order they are made
TimerSchedule ==
    /\ Len(calls) < MaxTimerCalls
    /\ \E cycles_into_future \in 0..MaxDelay :
          Commit(ScheduleEvent(Call(State, "ScheduleEvent"), cycles_into_future,
                               "Timer", Count(calls, "ScheduleEvent") + 1))
    /\ UNCHANGED hostvars

\* the clock runs on by one cycle
TimerTick ==
    /\ cycles < MaxCycles
    /\ Commit([State EXCEPT !.cycles = @ + 1])
    /\ UNCHANGED hostvars

\* CoreTiming::Advance is called
TimerAdvance ==
    /\ Len(calls) < MaxTimerCalls
    /\ Commit(Advance(State))
    /\ UNCHANGED hostvars

\* the idle branch of the run loop, as the timer sees it: CoreTiming::Idle
\* and then CoreTiming::Advance
TimerIdleAdvance ==
    /\ Len(calls) + 1 < MaxTimerCalls
    /\ Commit(Advance(Idle(State)))
    /\ UNCHANGED hostvars

NextTimer ==
    \/ TimerSchedule
    \/ TimerTick
    \/ TimerAdvance
    \/ TimerIdleAdvance

SpecTimer == TimerInit /\ [][NextTimer]_vars

\* --------------------------------------- the shared page on the timer
\* the page, the clock and the queue as the handler's constructor leaves them
\* on a timer that was just initialized
Constructed ==
    HandlerInit([calls |-> <<>>, cycles |-> 0, event_queue |-> <<>>,
                 date_time_counter |-> 0, date_time_0 |-> 0, date_time_1 |-> 0])

\* a session whose timer is initialized and whose shared page handler is
\* constructed; the clock runs and the run loop calls Idle and Advance
SharedPageInit ==
    /\ cpu_core = FALSE /\ dsp_core = FALSE /\ rpc_server = FALSE
    /\ service_manager = FALSE /\ shared_page_handler = TRUE
    /\ qt_callbacks = FALSE /\ app_loader = FALSE
    /\ inited = {"CoreTiming"}
    /\ reschedule_pending = FALSE
    /\ jump_requested = FALSE /\ shutdown_requested = FALSE
    /\ jump_tid = 0 /\ jump_media = "NAND"
    /\ m_filepath = NoPath /\ page_table = NoPath
    /\ thread_state = AllDormant /\ current_thread = NoThread
    /\ cycles = Constructed.cycles /\ event_queue = Constructed.event_queue
    /\ date_time_counter = Constructed.date_time_counter
    /\ date_time_0 = Constructed.date_time_0 /\ date_time_1 = Constructed.date_time_1
    /\ fired = <<>>
    /\ calls = <<>> /\ result = "none"
    /\ host_pc = "host"
    /\ rl_idle = FALSE /\ rl_seen_jump = FALSE /\ rl_seen_shutdown = FALSE
    /\ ServicesInit

NextSharedPage ==
    \/ TimerSchedule
    \/ TimerTick
    \/ TimerAdvance
    \/ TimerIdleAdvance

SpecSharedPage == SharedPageInit /\ [][NextSharedPage]_vars

\* ------------------------------------------------- the CECD service alone
\* the System while no title is loaded
SystemIdle ==
    /\ cpu_core = FALSE /\ dsp_core = FALSE /\ rpc_server = FALSE
    /\ service_manager = FALSE /\ shared_page_handler = FALSE
    /\ qt_callbacks = FALSE /\ app_loader = FALSE
    /\ inited = {}
    /\ reschedule_pending = FALSE
    /\ jump_requested = FALSE /\ shutdown_requested = FALSE
    /\ jump_tid = 0 /\ jump_media = "NAND"
    /\ m_filepath = NoPath /\ page_table = NoPath
    /\ thread_state = AllDormant /\ current_thread = NoThread
    /\ cycles = 0 /\ event_queue = <<>>
    /\ date_time_counter = 0 /\ date_time_0 = 0 /\ date_time_1 = 0
    /\ fired = <<>>
    /\ calls = <<>> /\ result = "none"
    /\ host_pc = "host"
    /\ rl_idle = FALSE /\ rl_seen_jump = FALSE /\ rl_seen_shutdown = FALSE

\* what a CECD request leaves alone
cecdfixed ==
    <<cpu_core, dsp_core, rpc_server, service_manager, shared_page_handler,
      qt_callbacks, app_loader, inited, reschedule_pending, jump_requested,
      shutdown_requested, jump_tid, jump_media, m_filepath, page_table, thread_state,
      current_thread, cycles, event_queue, date_time_counter, date_time_0,
      date_time_1, fired, host_pc, rl_idle, rl_seen_jump, rl_seen_shutdown,
      values, qt_config>>

\* the next state of the CECD service is the record r
CecdCommit(r) ==
    /\ session_data' = r.session_data
    /\ read_buffer' = r.read_buffer
    /\ file_buffer' = r.file_buffer
    /\ last_open' = r.last_open
    /\ calls' = r.calls
    /\ result' = r.result
    /\ UNCHANGED cecdfixed

\* a session that was just created: SessionData::SessionData() initializes
\* nothing, the file pointer is null and the other members hold any value
CecdInit ==
    /\ SystemIdle
    /\ session_data \in [ncch_program_id : ProgramIds, data_path_type : PathTypes,
                         check : BOOLEAN, file : {NoFile}]
    /\ read_buffer = NoBuffer /\ file_buffer = NoBuffer
    /\ last_open = "none"
    /\ qt_config = EmptyConfig
    /\ values = ReadValues(NoValues, EmptyConfig)

\* the client sends an Open request; the open mode's create bit matters for
\* a directory, its check bit for a file
CecdOpen ==
    \E ncch_program_id \in ProgramIds, path_type \in PathTypes,
       check \in BOOLEAN, create \in BOOLEAN, opened \in BOOLEAN :
        /\ path_type \in DirPathTypes => ~check
        /\ path_type \in FilePathTypes => ~create
        /\ CecdCommit(Open(CecdState, ncch_program_id, path_type, check, create, opened))

\* the client sends a Read request
CecdRead == CecdCommit(Read(CecdState))

\* the buffer of the latest Write as the file holds it, when it fits the
\* session's path type: a guest can send back once what it wrote
WrittenBack ==
    IF /\ read_buffer \in Buffers(session_data.data_path_type)
       /\ \/ /\ session_data.data_path_type = "CEC_PATH_MBOX_LIST"
             /\ "num_boxes" \in DOMAIN file_buffer
          \/ /\ session_data.data_path_type = "CEC_PATH_OUTBOX_INDEX"
             /\ "message_num" \in DOMAIN file_buffer
    THEN {file_buffer} ELSE {}

\* the client sends a Write request; the directory listing matters when the
\* box list is rebuilt
CecdWrite ==
    \E buffer \in Buffers(session_data.data_path_type) \cup WrittenBack,
       entries \in Listings :
        /\ ~(/\ session_data.data_path_type = "CEC_PATH_MBOX_LIST"
             /\ session_data.check
             /\ session_data.ncch_program_id = 0) => entries = <<MBoxListName>>
        /\ CecdCommit(Write(CecdState, buffer, entries))

NextCecd ==
    \/ CecdOpen
    \/ CecdRead
    \/ CecdWrite

SpecCecd == CecdInit /\ [][NextCecd]_vars

\* ---------------------------------------------- the configuration alone
\* what the configuration leaves alone
configfixed ==
    <<cpu_core, dsp_core, rpc_server, service_manager, shared_page_handler,
      qt_callbacks, app_loader, inited, reschedule_pending, jump_requested,
      shutdown_requested, jump_tid, jump_media, m_filepath, page_table, thread_state,
      current_thread, cycles, event_queue, date_time_counter, date_time_0,
      date_time_1, fired, result, host_pc, rl_idle, rl_seen_jump, rl_seen_shutdown,
      session_data, read_buffer, file_buffer, last_open>>

\* Config::Config: the file is opened and Reload reads it
ConfigInit ==
    /\ SystemIdle
    /\ session_data = [ncch_program_id |-> 0, data_path_type |-> "CEC_PATH_ROOT_DIR",
                       check |-> FALSE, file |-> NoFile]
    /\ read_buffer = NoBuffer /\ file_buffer = NoBuffer
    /\ last_open = "none"
    /\ qt_config \in ConfigFiles
    /\ values = ReadValues(NoValues, qt_config)

\* the user changes a setting in the dialogs
ConfigEdit ==
    /\ \/ \E b \in BOOLEAN : values' = [values EXCEPT !.sp_enable_3d = b]
       \/ \E n \in 0..1 : values' = [values EXCEPT !.layout_option = n]
       \/ \E c \in Cameras, f \in 0..MaxFlip :
              values' = [values EXCEPT !.camera_flip[c] = f]
    /\ values' # values
    /\ calls' = <<"Edit">>
    /\ UNCHANGED <<qt_config, configfixed>>

\* Config::Save
ConfigSave ==
    /\ qt_config' = SaveValues(values, qt_config)
    /\ calls' = <<"SaveValues">>
    /\ UNCHANGED <<values, configfixed>>

\* Config::Reload, as long as the game directory list has room
ConfigReload ==
    /\ Len(values.game_dirs) + Len(ReadArray(qt_config, "gamedirs")) <= MaxGameDirs
    /\ values' = ReadValues(values, qt_config)
    /\ calls' = <<"ReadValues">>
    /\ UNCHANGED <<qt_config, configfixed>>

NextConfig ==
    \/ ConfigEdit
    \/ ConfigSave
    \/ ConfigReload

SpecConfig == ConfigInit /\ [][NextConfig]_vars

TypeOK ==
    /\ cpu_core \in BOOLEAN /\ app_loader \in BOOLEAN
    /\ inited \subseteq Modules
    /\ current_thread \in Threads \cup {NoThread}
    /\ cycles \in 0..MaxCycles
    /\ \A i \in 1..Len(event_queue) : event_queue[i].time <= MaxCycles + HourCycles
    /\ \A i \in 1..(Len(event_queue) - 1) : event_queue[i].time <= event_queue[i + 1].time

\* ------------------------------------------------------------ observers
\* a RunLoop call that found a CPU core has returned
RLDone == host_pc = "host" /\ calls # <<>> /\ calls[1] \in {"Idle", "Advance"}

\* a Load called by the host has returned
LoadReturned == host_pc = "host" /\ calls # <<>> /\ calls[1] = "Load"

\* the first a in c comes before the first b
Before(c, a, b) == First(c, a) > 0 /\ First(c, a) < First(c, b)

\* the step is the return of a RunLoop call from its flag test
FlagStep == host_pc = "rl_flags" /\ host_pc' = "host"

\* the step is a Load called by the host
LoadStep ==
    /\ host_pc = "host" /\ host_pc' = "host"
    /\ calls' # <<>> /\ calls'[1] = "Load"
    /\ <<calls, result>>' # <<calls, result>>

members == <<cpu_core, dsp_core, rpc_server, service_manager, shared_page_handler,
             qt_callbacks, inited>>

\* nothing that Shutdown tears down is live
SessionDown ==
    /\ ~cpu_core /\ ~dsp_core /\ ~rpc_server /\ ~service_manager /\ ~qt_callbacks
    /\ ~app_loader /\ inited = {}

\* the timer step, the CPU slice or idle step, the hardware update and the
\* reschedule step of one iteration, each once and in this order
StepsComplete(c, idle) ==
    /\ Count(c, "Advance") = 1 /\ Count(c, "HW::Update") = 1 /\ Count(c, "Reschedule") = 1
    /\ Before(c, "Advance", "HW::Update") /\ Before(c, "HW::Update", "Reschedule")
    /\ IF idle
       THEN /\ Count(c, "Idle") = 1 /\ Before(c, "Idle", "Advance")
            /\ Count(c, "Run") = 0
       ELSE /\ Count(c, "Run") = 1 /\ Before(c, "Advance", "Run")
            /\ Before(c, "Run", "HW::Update")
            /\ Count(c, "Idle") = 0

\* what the collaborator called by name answered: the log entry behind the
\* first call of that name
Answer(c, name) == IF Has(c, name) THEN c[First(c, name) + 1] ELSE "no call"

\* the call of that name was made and did not answer Success
Failed(c, name) == Has(c, name) /\ Answer(c, name) # "= Success"

\* a Shutdown called by the host has returned
ShutdownReturned == host_pc = "host" /\ calls # <<>> /\ calls[1] = "Shutdown"

\* a RunLoop call has returned from a jump whose reload failed
JumpReloadFailed ==
    RLDone /\ Has(calls, "Jump") /\ Answer(calls, "AppLoader::Load") # "= Success"

\* the calls of c that are named in order, in the order c made them
Named(c, order) == SelectSeq(c, LAMBDA x : Has(order, x))

\* c names the calls of order in rounds, each round complete and in order
InRounds(c, order) ==
    LET f == Named(c, order)
    IN  /\ Len(f) % Len(order) = 0
        /\ \A k \in 1..Len(f) : f[k] = order[((k - 1) % Len(order)) + 1]

\* the state as a fresh call of the host finds it
Fresh == [State EXCEPT !.calls = <<>>]

\* two states that differ in the call log at most
SameButCalls(a, b) == [a EXCEPT !.calls = <<>>] = [b EXCEPT !.calls = <<>>]

\* the path the Load logged in c was called with
LoadedPath(c) == c[First(c, "GetLoader") + 1]

\* the Load logged in c went through to its end
LoadSucceeded(c) == Answer(c, "AppLoader::Load") = "= Success"

\* the step is Idle followed by Advance with an event pending
IdleAdvanceStep == calls' = calls \o <<"Idle", "Advance">> /\ event_queue # <<>>

\* the threads that are Running
RunningThreads == {t \in Threads : thread_state[t] = "Running"}

\* the step wakes thread t from a wait
Wakes(t) == thread_state[t] \in {"WaitSleep", "WaitSynch"} /\ thread_state'[t] = "Ready"

\* the step tears the kernel of the session down or sets a new one up
KernelReset == calls' # calls /\ (Has(calls', "Kernel::Init") \/ Has(calls', "Kernel::Shutdown"))

\* the positions of the pending time-update events in the queue
PendingUpdates(q) == {i \in 1..Len(q) : q[i].type = "UpdateTime"}

\* the step calls CoreTiming::Advance
AdvanceCalled == Count(calls', "Advance") > Count(calls, "Advance")

\* how many of the events in f are time-update events
UpdatesFired(f) == Cardinality({i \in 1..Len(f) : f[i].event.type = "UpdateTime"})

\* --------------------------------------------------------------- claims

\* C1: RunLoop called while no CPU core exists returns ErrorNotInitialized,
\* makes no call (no Idle, Advance, Run, HW::Update, Reschedule) and leaves
\* every field of the program, the three flags included, as it was.
C1_NoCoreRunLoopInert ==
    [][(host_pc = "rl_enter" /\ ~cpu_core /\ host_pc' # host_pc)
          => /\ result' = "ErrorNotInitialized"
             /\ host_pc' = "host"
             /\ calls' = <<>>
             /\ UNCHANGED progvars]_vars

C1_Witness == host_pc = "host" /\ result = "ErrorNotInitialized" /\ calls = <<>>

\* C2 as stated: a RunLoop call that found the current thread null returns
\* with reschedule_pending true.
C2_Original == (RLDone /\ rl_idle) => reschedule_pending

\* C2 amended: the idle branch sets reschedule_pending and the Reschedule
\* step of the same call consumes it: Kernel::Reschedule is invoked once,
\* after the idle branch's PrepareReschedule, and reschedule_pending is false
\* when the call returns.
C2_IdleRescheduleConsumed ==
    (RLDone /\ rl_idle)
        => /\ ~reschedule_pending
           /\ Count(calls, "Kernel::Reschedule") = 1
           /\ Before(calls, "PrepareReschedule", "Kernel::Reschedule")

C2_Witness == RLDone /\ rl_idle /\ Has(calls, "Kernel::Reschedule")

\* C3: a RunLoop call that found the current thread null never calls Run and
\* calls Idle, then Advance, before HW::Update; a call that found a current
\* thread calls Advance, then Run, and never Idle.
C3_BranchCallOrder ==
    /\ host_pc \notin {"host", "rl_enter"}
          => /\ rl_idle => ~Has(calls, "Run")
             /\ ~rl_idle => ~Has(calls, "Idle")
    /\ RLDone
          => IF rl_idle
             THEN /\ SubSeq(calls, 1, 2) = <<"Idle", "Advance">>
                  /\ Count(calls, "Idle") = 1 /\ Count(calls, "Advance") = 1
                  /\ Before(calls, "Advance", "HW::Update")
                  /\ ~Has(calls, "Run")
             ELSE /\ calls[1] = "Advance"
                  /\ Count(calls, "Advance") = 1 /\ Count(calls, "Run") = 1
                  /\ Before(calls, "Advance", "Run")
                  /\ Before(calls, "Run", "HW::Update")
                  /\ ~Has(calls, "Idle")

C3_Witness == RLDone /\ ~rl_idle /\ Has(calls, "Run")

\* C4: in a RunLoop call that found a CPU core, if PrepareReschedule was called
\* (by the idle branch, the CPU slice or a timer callback) Kernel::Reschedule
\* is invoked exactly once and reschedule_pending is false at the return; if
\* it was not called, Kernel::Reschedule is not invoked.
C4_RescheduleExactlyOnce ==
    RLDone
        => IF Has(calls, "PrepareReschedule")
           THEN /\ Count(calls, "Kernel::Reschedule") = 1
                /\ Before(calls, "PrepareReschedule", "Kernel::Reschedule")
                /\ ~reschedule_pending
           ELSE /\ Count(calls, "Kernel::Reschedule") = 0
                /\ ~reschedule_pending

C4_Witness ==
    RLDone /\ ~rl_idle /\ Has(calls, "PrepareReschedule")
           /\ Count(calls, "Kernel::Reschedule") = 1

\* C5: jump_requested and shutdown_requested are cleared only by the flag
\* test at the end of an iteration, when the timer step, the CPU slice or
\* idle step, the hardware update and the reschedule step are all done; and
\* every iteration that returns has done all of them, whatever was requested
\* while it ran.
C5_FlagsOnlyAtEnd ==
    [][/\ ((jump_requested /\ ~jump_requested') \/ (shutdown_requested /\ ~shutdown_requested'))
            => (host_pc = "rl_flags" /\ StepsComplete(calls, rl_idle))
       /\ (FlagStep /\ RLDone') => StepsComplete(calls', rl_idle')]_vars

C5_Witness ==
    RLDone /\ rl_seen_shutdown /\ ~rl_seen_jump /\ Has(calls, "Run")
           /\ result = "ShutdownRequested"

\* C6 as stated: a RunLoop call that finds jump_requested set clears it,
\* performs Jump and does not return Success.
C6_Original ==
    [][(FlagStep /\ jump_requested)
          => /\ ~jump_requested'
             /\ Count(calls', "Jump") = 1
             /\ result' # "Success"]_vars

\* C6 amended: a RunLoop call that finds jump_requested set clears it,
\* performs Jump once and then returns Success, whatever the Load inside the
\* Jump returned.
C6_JumpReturnsSuccess ==
    [][(FlagStep /\ jump_requested)
          => /\ ~jump_requested'
             /\ Count(calls', "Jump") = 1
             /\ result' = "Success"]_vars

C6_Witness == RLDone /\ rl_seen_jump /\ Has(calls, "Jump") /\ result = "Success"

\* C7: a RunLoop call that finds both jump_requested and shutdown_requested
\* set performs Jump and does not return ShutdownRequested.
C7_JumpPrecedence ==
    (RLDone /\ rl_seen_jump /\ rl_seen_shutdown)
        => (Count(calls, "Jump") = 1 /\ result # "ShutdownRequested")

C7_Witness == RLDone /\ rl_seen_jump /\ rl_seen_shutdown /\ Has(calls, "Jump")

\* C8: shutdown_requested, once set, stays set until the flag test of a
\* RunLoop call; the call that finds it set and jump_requested clear returns
\* ShutdownRequested and calls neither Jump nor Shutdown, so the session is
\* still up.
C8_ShutdownRequested ==
    [][/\ (shutdown_requested /\ ~shutdown_requested') => (FlagStep /\ ~jump_requested)
       /\ (FlagStep /\ shutdown_requested /\ ~jump_requested)
            => /\ result' = "ShutdownRequested"
               /\ ~Has(calls', "Jump") /\ ~Has(calls', "Shutdown")
               /\ cpu_core' /\ UNCHANGED members]_vars

C8_Witness ==
    RLDone /\ rl_seen_shutdown /\ ~rl_seen_jump /\ result = "ShutdownRequested"
           /\ cpu_core

\* C9 as stated: every failure status returned by Load is preceded by a
\* Shutdown call inside that Load, and no subsystem and no loader handle is
\* live afterwards.
C9_Original ==
    (LoadReturned /\ result # "Success")
        => (Has(calls, "Shutdown") /\ SessionDown)

\* C9 amended: a failure status that Load returns after it called Init (a
\* propagated Init failure, or ErrorLoader, ErrorLoader_ErrorEncrypted or
\* ErrorLoader_ErrorInvalidFormat from loading the image) is preceded by a
\* Shutdown call inside that Load, after which the CPU core, the loader
\* handle and everything else Shutdown tears down are gone; ErrorGetLoader and
\* the system-mode failures are returned before Init, without a Shutdown call.
C9_ShutdownAfterInitFailure ==
    (LoadReturned /\ result # "Success")
        => IF Has(calls, "Init")
           THEN /\ Count(calls, "Shutdown") = 1
                /\ Before(calls, "Init", "Shutdown")
                /\ SessionDown
                /\ result \in (VideoResults \ {"Success"})
                                 \cup {"ErrorLoader", "ErrorLoader_ErrorEncrypted",
                                       "ErrorLoader_ErrorInvalidFormat"}
           ELSE /\ ~Has(calls, "Shutdown")
                /\ result \in {"ErrorGetLoader", "ErrorSystemMode",
                               "ErrorLoader_ErrorEncrypted",
                               "ErrorLoader_ErrorInvalidFormat"}

C9_Witness == LoadReturned /\ result = "ErrorLoader" /\ Has(calls, "Shutdown")

\* C10: Load called with no live session and a path no loader recognizes
\* returns ErrorGetLoader without calling Init or Shutdown and constructs
\* nothing: the CPU core stays absent, and a RunLoop call that follows
\* returns ErrorNotInitialized.
C10_UnrecognizedPath ==
    [][/\ (LoadStep /\ ~cpu_core /\ result' = "ErrorGetLoader")
            => /\ ~Has(calls', "Init") /\ ~Has(calls', "Shutdown")
               /\ ~cpu_core' /\ ~app_loader'
               /\ UNCHANGED members
       /\ (host_pc = "rl_enter" /\ host_pc' # host_pc
             /\ calls # <<>> /\ calls[1] = "Load" /\ result = "ErrorGetLoader"
             /\ ~cpu_core)
            => result' = "ErrorNotInitialized"]_vars

C10_Witness ==
    /\ host_pc = "rl_enter" /\ ~cpu_core
    /\ Len(calls) = 3 /\ calls[1] = "Load" /\ calls[2] = "GetLoader"
    /\ result = "ErrorGetLoader"

\* C11: when the system-mode query of a Load fails, Load returns
\* ErrorLoader_ErrorEncrypted for an encrypted image,
\* ErrorLoader_ErrorInvalidFormat for an invalid format and ErrorSystemMode
\* for every other failure, and Init is never called in that Load.
C11_SystemModeFailure ==
    Failed(calls, "LoadKernelSystemMode")
        => /\ ~Has(calls, "Init")
           /\ LoadReturned
                => result = CASE Answer(calls, "LoadKernelSystemMode") = "= ErrorEncrypted"
                                   -> "ErrorLoader_ErrorEncrypted"
                              [] Answer(calls, "LoadKernelSystemMode") = "= ErrorInvalidFormat"
                                   -> "ErrorLoader_ErrorInvalidFormat"
                              [] OTHER -> "ErrorSystemMode"

C11_Witness ==
    /\ LoadReturned /\ Answer(calls, "LoadKernelSystemMode") = "= ErrorEncrypted"
    /\ result = "ErrorLoader_ErrorEncrypted"

\* C12: when Init fails inside a Load called by the host, Shutdown is called
\* exactly once, after Init, Load returns exactly the status Init returned,
\* the image is never loaded, and the page table and the recorded path keep
\* the values they had before the call; inside the Load of a jump the image
\* is not loaded and the page table and the path stay as they were, too.
C12_InitFailurePropagated ==
    [][/\ (LoadStep /\ Failed(calls', "VideoCore::Init"))
            => /\ Count(calls', "Shutdown") = 1
               /\ Before(calls', "VideoCore::Init", "Shutdown")
               /\ Answer(calls', "VideoCore::Init") = "= " \o result'
               /\ ~Has(calls', "AppLoader::Load")
               /\ UNCHANGED <<page_table, m_filepath>>
       /\ (FlagStep /\ Failed(calls', "VideoCore::Init"))
            => /\ ~Has(calls', "AppLoader::Load")
               /\ UNCHANGED <<page_table, m_filepath>>]_vars

C12_Witness ==
    /\ LoadReturned /\ result = "ErrorVideoCore_ErrorGenericDrivers"
    /\ Count(calls, "Shutdown") = 1 /\ m_filepath # NoPath

\* C13 as stated: a failed image load after a successful Init calls Shutdown
\* and is classified exactly as a system-mode failure is, the generic status
\* being the one the system-mode failure path returns.
C13_Original ==
    (LoadReturned /\ Failed(calls, "AppLoader::Load"))
        => /\ Has(calls, "Shutdown")
           /\ result = CASE Answer(calls, "AppLoader::Load") = "= ErrorEncrypted"
                              -> "ErrorLoader_ErrorEncrypted"
                         [] Answer(calls, "AppLoader::Load") = "= ErrorInvalidFormat"
                              -> "ErrorLoader_ErrorInvalidFormat"
                         [] OTHER -> "ErrorSystemMode"

\* C13 amended: a failed image load after a successful Init calls Shutdown
\* once, after the load, and Load returns ErrorLoader_ErrorEncrypted for an
\* encrypted image, ErrorLoader_ErrorInvalidFormat for an invalid format and
\* ErrorLoader for every other failure.
C13_ImageLoadFailure ==
    (LoadReturned /\ Failed(calls, "AppLoader::Load"))
        => /\ Answer(calls, "VideoCore::Init") = "= Success"
           /\ Count(calls, "Shutdown") = 1
           /\ Before(calls, "AppLoader::Load", "Shutdown")
           /\ result = CASE Answer(calls, "AppLoader::Load") = "= ErrorEncrypted"
                              -> "ErrorLoader_ErrorEncrypted"
                         [] Answer(calls, "AppLoader::Load") = "= ErrorInvalidFormat"
                              -> "ErrorLoader_ErrorInvalidFormat"
                         [] OTHER -> "ErrorLoader"

C13_Witness ==
    /\ LoadReturned /\ Answer(calls, "AppLoader::Load") = "= Error"
    /\ result = "ErrorLoader" /\ Has(calls, "Shutdown")

\* C14 as stated: after Shutdown every subsystem that Init constructed is
\* torn down, the shared page handler included.
C14_Original == ShutdownReturned => (SessionDown /\ ~shared_page_handler)

\* C15 as stated: after a jump whose reload failed no CPU core and no other
\* subsystem of the old or the attempted session is live, and the RunLoop
\* call that follows returns ErrorNotInitialized.
C15_Original ==
    [][/\ (FlagStep /\ JumpReloadFailed')
            => (/\ ~cpu_core' /\ ~dsp_core' /\ ~rpc_server' /\ ~service_manager'
                /\ ~qt_callbacks' /\ inited' = {} /\ ~shared_page_handler')
       /\ (JumpReloadFailed /\ host_pc = "rl_enter" /\ host_pc' # host_pc)
            => result' = "ErrorNotInitialized"]_vars

\* C16: Shutdown is safe and idempotent on every state the host can call it
\* in, the never initialized, the shut down and the one an Init that failed
\* part-way leaves behind: no call dereferences an absent member, and a second
\* Shutdown leaves the state the first one left.
C16_ShutdownIdempotent ==
    /\ ~Has(calls, "null dereference")
    /\ host_pc = "host"
         => /\ LET once == Shutdown(Fresh)
                   twice == Shutdown([once EXCEPT !.calls = <<>>])
               IN  /\ ~Has(once.calls, "null dereference")
                   /\ ~Has(twice.calls, "null dereference")
                   /\ SameButCalls(once, twice)
                   /\ ShutdownReturned => SameButCalls(once, State)
            /\ \A v \in VideoResults \ {"Success"} :
                  LET once == Shutdown(Init(Fresh, v))
                      twice == Shutdown(once)
                  IN  /\ ~Has(twice.calls, "null dereference")
                      /\ SameButCalls(once, twice)
                      /\ ~once.cpu_core /\ once.inited = {}

C16_Witness ==
    ShutdownReturned /\ ~shared_page_handler /\ m_filepath = NoPath /\ ~cpu_core

\* C17: Init initializes the timer, then constructs the CPU core, the audio
\* core, the RPC server, the service manager and the shared page handler,
\* then initializes hardware and kernel and, as its last subsystem, the
\* renderer; the handler registers and schedules its time-update event on the
\* initialized timer, so the event is pending when Load returns Success.
C17_InitOrder ==
    /\ Has(calls, "Init")
         => /\ Named(calls, <<"CoreTiming::Init", "cpu_core.make", "dsp_core.make",
                              "rpc_server.make", "service_manager.make",
                              "SharedPage::Handler", "CoreTiming::RegisterEvent",
                              "CoreTiming::ScheduleEvent", "HW::Init", "Kernel::Init",
                              "VideoCore::Init">>)
                 = <<"CoreTiming::Init", "cpu_core.make", "dsp_core.make",
                     "rpc_server.make", "service_manager.make",
                     "SharedPage::Handler", "CoreTiming::RegisterEvent",
                     "CoreTiming::ScheduleEvent", "HW::Init", "Kernel::Init",
                     "VideoCore::Init">>
            /\ \A i \in 1..Len(calls) :
                  calls[i] \in {"Service::Init", "CheatCore::Init", "qt_callbacks.make"}
                     => i < First(calls, "VideoCore::Init")
    /\ (LoadReturned /\ result = "Success")
         => /\ "CoreTiming" \in inited /\ shared_page_handler
            /\ event_queue # <<>>
            /\ Head(event_queue).type = "UpdateTime" /\ Head(event_queue).time = 0

C17_Witness ==
    /\ LoadReturned /\ result = "Success" /\ Has(calls, "SharedPage::Handler")
    /\ event_queue # <<>> /\ Head(event_queue).type = "UpdateTime"

\* C18: every Shutdown tears down in the order cheats, video, services,
\* kernel, hardware, service manager, audio core, CPU core, timer, loader,
\* RPC server.
C18_ShutdownOrder ==
    /\ InRounds(calls, <<"CheatCore::Shutdown", "VideoCore::Shutdown",
                         "Service::Shutdown", "Kernel::Shutdown", "HW::Shutdown",
                         "service_manager.reset", "dsp_core.reset", "cpu_core.reset",
                         "CoreTiming::Shutdown", "app_loader.reset",
                         "rpc_server.reset">>)
    /\ Count(calls, "Shutdown") = Count(calls, "rpc_server.reset")
    /\ Has(calls, "Shutdown") => First(calls, "Shutdown") < First(calls, "CheatCore::Shutdown")

C18_Witness == RLDone /\ Count(calls, "Shutdown") = 2 /\ Count(calls, "rpc_server.reset") = 2

\* C19: a Load that succeeds returns Success, installs the page table of the
\* loaded process and records its path; a Load that fails, called by the
\* host or by a jump, leaves the recorded path as it was; a jump to title 0
\* shuts down and then calls Load with the recorded path; and the recorded
\* path changes in no step but a Load that succeeds, so the path a self-jump
\* reloads is the one of the most recent successful Load.
C19_RecordedPath ==
    [][/\ (LoadStep /\ LoadSucceeded(calls'))
            => /\ result' = "Success"
               /\ page_table' = LoadedPath(calls')
               /\ m_filepath' = LoadedPath(calls')
       /\ (LoadStep /\ ~LoadSucceeded(calls')) => (result' # "Success" /\ UNCHANGED m_filepath)
       /\ (FlagStep /\ Has(calls', "Jump"))
            => /\ Before(calls', "Shutdown", "Load")
               /\ jump_tid = 0 => LoadedPath(calls') = m_filepath
               /\ IF LoadSucceeded(calls')
                  THEN m_filepath' = LoadedPath(calls') /\ page_table' = LoadedPath(calls')
                  ELSE UNCHANGED m_filepath
       /\ m_filepath' # m_filepath
            => (LoadStep \/ FlagStep) /\ LoadSucceeded(calls')]_vars

C19_Witness ==
    /\ RLDone /\ Has(calls, "Jump") /\ jump_tid = 0 /\ LoadSucceeded(calls)
    /\ LoadedPath(calls) = "nand:/title" /\ m_filepath = "nand:/title"
    /\ page_table = "nand:/title"

\* C20: whatever the order of ScheduleEvent calls with delays of zero or
\* more, clock advances and Advance calls, the events one Advance fires are
\* in non-decreasing order of target cycle, events of equal target cycle in
\* the order they were scheduled, and no fired event has a target cycle
\* beyond the cycle count at which it is fired.
C20_FiringOrder ==
    /\ \A i \in 1..Len(fired) : fired[i].event.time <= fired[i].at
    /\ \A i, j \in 1..Len(fired) :
          i < j => /\ fired[i].event.time <= fired[j].event.time
                   /\ fired[i].event.time = fired[j].event.time
                        => fired[i].event.userdata < fired[j].event.userdata

C20_Witness ==
    /\ Len(fired) >= 3
    /\ fired[1].event.time = fired[2].event.time
    /\ fired[2].event.time < fired[3].event.time
    /\ fired[3].event.userdata < fired[2].event.userdata

\* C21 as stated: with an event pending, Idle followed by Advance moves the
\* cycle count exactly to the smallest pending target cycle, the earliest
\* event fires with cycles_late = 0 and no event with a larger target cycle
\* fires; the cycle count never decreases.
C21_Original ==
    [][/\ cycles' >= cycles
       /\ IdleAdvanceStep
            => /\ cycles' = Head(event_queue).time
               /\ fired' # <<>>
               /\ \A i \in 1..Len(fired') :
                     /\ fired'[i].at = fired'[i].event.time
                     /\ fired'[i].event.time = Head(event_queue).time]_vars

\* C21 amended: the cycle count never decreases.  With an event pending,
\* Idle followed by Advance leaves the cycle count at the smallest pending
\* target cycle when that target is not behind the clock, and the earliest
\* event then fires with cycles_late = 0 together with nothing but the events
\* of the same target cycle; when the earliest event is overdue already, the
\* clock stays where it is and the event fires with cycles_late = cycle count
\* - target cycle.  No event beyond the cycle count fires and none that is
\* due stays pending.
C21_IdleAdvance ==
    [][/\ cycles' >= cycles
       /\ IdleAdvanceStep
            => LET target == Head(event_queue).time
               IN  /\ cycles' = IF target > cycles THEN target ELSE cycles
                   /\ fired' # <<>> /\ fired'[1].event = Head(event_queue)
                   /\ \A i \in 1..Len(fired') :
                         /\ fired'[i].at = cycles'
                         /\ fired'[i].event.time <= cycles'
                         /\ target >= cycles => fired'[i].event.time = target
                   /\ \A i \in 1..Len(event_queue') : event_queue'[i].time > cycles']_vars

C21_Witness ==
    /\ cycles > MaxCycles /\ fired # <<>> /\ fired[1].at = fired[1].event.time
    /\ Len(calls) >= 2 /\ calls[Len(calls)] = "Advance" /\ calls[Len(calls) - 1] = "Idle"

\* C22: in every reachable state at most one thread is Running, and a
\* Running thread is the current thread.
C22_AtMostOneRunning ==
    /\ Cardinality(RunningThreads) <= 1
    /\ \A t \in RunningThreads : current_thread = t

C22_Witness ==
    /\ host_pc = "rl_flags" /\ Has(calls, "Kernel::Reschedule")
    /\ thread_state[1] = "Running" /\ thread_state[2] = "Ready" /\ current_thread = 1

\* C23: a step that wakes a waiting thread of the session leaves it Ready,
\* sets reschedule_pending and leaves the current thread and the Running
\* thread as they were; within a session the current thread changes only in the
\* reschedule step of the run loop, in a call of Kernel::Reschedule, and
\* Kernel::Reschedule is called in no other step (tearing the kernel down or
\* setting it up leaves no thread current).
C23_WakeDoesNotSwitch ==
    [][/\ \A t \in Threads :
             (Wakes(t) /\ ~KernelReset)
                => /\ reschedule_pending'
                   /\ current_thread' = current_thread
                   /\ RunningThreads' = RunningThreads
       /\ current_thread' # current_thread
            => \/ host_pc = "rl_resched" /\ Has(calls', "Kernel::Reschedule")
               \/ KernelReset /\ current_thread' = NoThread
       /\ Count(calls', "Kernel::Reschedule") > Count(calls, "Kernel::Reschedule")
            => host_pc = "rl_resched"]_vars

C23_Witness ==
    /\ host_pc = "rl_run" /\ fired # <<>> /\ fired[1].event.type = "ThreadWakeup"
    /\ thread_state[fired[1].event.userdata] = "Ready" /\ reschedule_pending
    /\ current_thread # NoThread /\ thread_state[current_thread] = "Running"
    /\ current_thread # fired[1].event.userdata

\* C24: with the handler constructed on the session's timer exactly one
\* time-update event is pending in every state; its target cycle is one hour
\* of cycles times the number of callbacks that ran, so successive updates
\* are exactly one hour of cycles apart however late a callback ran; and no
\* callback runs before its target cycle.
C24_HourlyUpdate ==
    /\ Cardinality(PendingUpdates(event_queue)) = 1
    /\ \A i \in PendingUpdates(event_queue) :
          event_queue[i].time = date_time_counter * HourCycles
    /\ \A i \in 1..Len(fired) :
          fired[i].event.type = "UpdateTime"
             => /\ fired[i].event.time <= fired[i].at
                /\ fired[i].event.time % HourCycles = 0

C24_Witness ==
    /\ fired # <<>> /\ fired[Len(fired)].event.type = "UpdateTime"
    /\ fired[Len(fired)].at > fired[Len(fired)].event.time
    /\ date_time_counter >= 1
    /\ \E i \in PendingUpdates(event_queue) :
          event_queue[i].time = fired[Len(fired)].event.time + HourCycles

\* C29: a step in which UpdateTimeCallback runs k times adds k to
\* date_time_counter; after it the slot that the parity of the new counter
\* selects (even date_time_0, odd date_time_1) holds the update written in
\* this step, and after a single callback the other slot holds what it held
\* before.
C29_SlotParity ==
    [][/\ date_time_counter' = date_time_counter + (IF AdvanceCalled
                                                    THEN UpdatesFired(fired') ELSE 0)
       /\ date_time_counter' # date_time_counter
            => IF date_time_counter' % 2 = 0
               THEN /\ date_time_0' = cycles'
                    /\ date_time_counter' = date_time_counter + 1
                         => date_time_1' = date_time_1
               ELSE /\ date_time_1' = cycles'
                    /\ date_time_counter' = date_time_counter + 1
                         => date_time_0' = date_time_0]_vars

C29_Witness ==
    /\ date_time_counter = 2 /\ date_time_0 > date_time_1 /\ date_time_1 > 0

\* C26: a shutdown request that meets a jump request at the flag test stays
\* set across the jump; shutdown_requested, once set, is cleared by nothing
\* but a flag test that finds jump_requested clear, and that flag test
\* returns ShutdownRequested.
C26_ShutdownNotLost ==
    [][/\ (FlagStep /\ jump_requested /\ shutdown_requested)
            => (shutdown_requested' /\ ~jump_requested' /\ Has(calls', "Jump"))
       /\ (shutdown_requested /\ ~shutdown_requested')
            => (FlagStep /\ ~jump_requested /\ result' = "ShutdownRequested")
       /\ (FlagStep /\ ~jump_requested /\ shutdown_requested)
            => (result' = "ShutdownRequested" /\ ~shutdown_requested')]_vars

C26_Witness ==
    /\ RLDone /\ Has(calls, "Jump") /\ rl_seen_jump /\ rl_seen_shutdown
    /\ shutdown_requested /\ ~jump_requested /\ cpu_core

\* ------------------------------------------------------------------ C25
\* the latest request was a Write that ran CheckAndUpdateFile on a file of
\* the path type
CheckedWrite(path_type) ==
    /\ Len(calls) >= 2
    /\ calls[1] = "Write"
    /\ calls[2] = "CheckAndUpdateFile"
    /\ session_data.data_path_type = path_type

\* C25: when CheckAndUpdateFile runs on an outbox index whose message_num is
\* unset (0) and whose file is larger than the 8-byte header, the buffer it
\* leaves has message_num equal to the file size in 8-byte units minus one,
\* a value that is never negative or wrapped.
C25_MessageNum ==
    (/\ CheckedWrite("CEC_PATH_OUTBOX_INDEX")
     /\ read_buffer.message_num = U32(0)
     /\ read_buffer.file_size > OBIndexHeaderSize)
        => file_buffer.message_num = U32((read_buffer.file_size \div 8) - 1)

\* ------------------------------------------------------------------ C27
\* C27: when CheckAndUpdateFile runs on a box list header with at most 24
\* boxes, the header it leaves has at most 24 boxes and no name was written
\* outside the table of 24 slots, whether the program id is non-zero (the
\* title is added) or 0 (the list is rebuilt from the /CEC directory); and
\* running it again with the same non-zero program id adds nothing.
C27_BoxTable ==
    (CheckedWrite("CEC_PATH_MBOX_LIST") /\ read_buffer.num_boxes <= max_num_boxes)
        => /\ file_buffer.num_boxes <= max_num_boxes
           /\ ~Has(calls, "box_names overflow")
           /\ session_data.ncch_program_id # 0
                 => CheckAndUpdateFile(CecdState, "CEC_PATH_MBOX_LIST",
                                       session_data.ncch_program_id,
                                       <<MBoxListName>>).file_buffer = file_buffer

\* ------------------------------------------------------------------ C28
\* the latest request called through session_data->file
FileTouched ==
    \E i \in 1..Len(calls) :
        calls[i] \in {"file.GetSize", "file.Read", "file.Write", "file.Close"}

\* C28: a request goes through the session's file only when the most recent
\* Open on the session opened a file; a Read or Write that follows an Open
\* which failed or opened a directory touches no file and answers with an
\* error.
C28_FileOnlyAfterOpen ==
    /\ FileTouched => last_open = "file"
    /\ (/\ Len(calls) >= 1
        /\ calls[1] \in {"Read", "Write"}
        /\ last_open # "file") => result # "Success"

\* ------------------------------------------------------------------ C30
\* C30: SaveValues followed by ReadValues leaves every setting as it was
\* before the save, the flip of each camera and the list of game
\* directories included.
C30_RoundTrip ==
    [][(calls = <<"SaveValues">> /\ calls' = <<"ReadValues">>) => values' = values]_vars

====
